---- MODULE Spec2Model ----
(***************************************************************************)
(* Model of src/pdf_analyzer.py: the gazette pipeline that reflows page    *)
(* text, scans it for legal-act boundary markers, parses title fields,     *)
(* extracts the table of contents and resolves each act's institution.     *)
(*                                                                         *)
(* A Python str is modelled as a sequence of characters.  A character is   *)
(* a one-letter string; an accented letter is written with a trailing      *)
(* apostrophe ("U'" is U with acute accent, "o'" is o with acute accent),  *)
(* so it is a character different from its unaccented letter.              *)
(***************************************************************************)
EXTENDS Integers, Sequences, FiniteSets

VARIABLES
    pc,               \* position of the procedure being run
    pages,            \* reader.pages: the per-page extracted text
    full_text,        \* extract_documents: the reflowed issue text
    toc_data,         \* extract_documents: the table-of-contents entries
    publication_date, \* extract_documents: the issue's publication date
    current_index,    \* extract_documents: where the next search starts
    documents,        \* extract_documents: the records emitted so far
    spans,            \* history: <<start_index, next_index>> of each record
    fields,           \* history: the locals tipo, numero, anio of each record
    lines,            \* the line list a line loop iterates over
    idx,              \* the index of the next line of that loop
    current_entity,   \* extract_table_of_contents: the entity in effect
    data,             \* extract_table_of_contents: the entries so far
    processed_lines,  \* process_two_column_text: the emitted lines
    current_line,     \* process_two_column_text: the held fragments
    args,             \* the arguments of the pure function being applied
    result            \* the value it returned

vars == <<pc, pages, full_text, toc_data, publication_date, current_index, documents, spans,
          fields, lines, idx, current_entity, data, processed_lines,
          current_line, args, result>>

--------------------------------------------------------------------------
(* Evaluation.  bind(v, F) is F(v) with v evaluated once: the value of a  *)
(* local variable of the code, as opposed to an expression written out    *)
(* again at every use.                                                    *)

bind(v, F(_)) == CHOOSE r \in {F(x) : x \in {v}} : TRUE

bind2(v, w, F(_, _)) == CHOOSE r \in {F(x, y) : x \in {v}, y \in {w}} : TRUE

\* The least element of a set of positions, or 0 for the empty set.
min_of(S) == bind(S, LAMBDA T :
    IF T = {} THEN 0 ELSE CHOOSE i \in T : \A j \in T : i <= j)

max_of(S) == bind(S, LAMBDA T :
    IF T = {} THEN 0 ELSE CHOOSE i \in T : \A j \in T : i >= j)

\* The first position of S that test accepts, or 0.
first_in(S, test(_)) == min_of({i \in S : test(i)})

\* The last position of S that test accepts, or 0.
last_in(S, test(_)) == max_of({i \in S : test(i)})

--------------------------------------------------------------------------
(* Characters and the str methods the source uses.                        *)

LowerCase == <<"a","b","c","d","e","f","g","h","i","j","k","l","m","n","o",
               "p","q","r","s","t","u","v","w","x","y","z",
               "a'","e'","i'","o'","u'","n~">>

UpperCase == <<"A","B","C","D","E","F","G","H","I","J","K","L","M","N","O",
               "P","Q","R","S","T","U","V","W","X","Y","Z",
               "A'","E'","I'","O'","U'","N~">>

Range(f) == {f[i] : i \in DOMAIN f}

Lowers == Range(LowerCase)

Uppers == Range(UpperCase)

Letters == Lowers \cup Uppers

Digits == {"0","1","2","3","4","5","6","7","8","9"}

Space == {" ", "\n", "\t"}

Punct == {",", ".", "-", "(", ")"}

Alphabet == Letters \cup Digits \cup Space \cup Punct

UpperMap == [c \in Lowers |-> UpperCase[CHOOSE i \in DOMAIN LowerCase : LowerCase[i] = c]]

LowerMap == [c \in Uppers |-> LowerCase[CHOOSE i \in DOMAIN UpperCase : UpperCase[i] = c]]

upper_char(c) == IF c \in Lowers THEN UpperMap[c] ELSE c

lower_char(c) == IF c \in Uppers THEN LowerMap[c] ELSE c

\* str.upper()
upper(str) == bind(str, LAMBDA s : [i \in DOMAIN s |-> upper_char(s[i])])

\* str.lower()
lower(str) == bind(str, LAMBDA s : [i \in DOMAIN s |-> lower_char(s[i])])

\* The letters NFKD decomposes into an ASCII letter and a combining mark.
Accented == {"a'","e'","i'","o'","u'","n~","A'","E'","I'","O'","U'","N~"}

BaseMap == [c \in Accented |->
              CASE c = "a'" -> "a" [] c = "e'" -> "e" [] c = "i'" -> "i"
                [] c = "o'" -> "o" [] c = "u'" -> "u" [] c = "n~" -> "n"
                [] c = "A'" -> "A" [] c = "E'" -> "E" [] c = "I'" -> "I"
                [] c = "O'" -> "O" [] c = "U'" -> "U" [] c = "N~" -> "N"]

\* str.strip(): the string without its leading and trailing whitespace
strip(str) == bind(str, LAMBDA s :
    bind({i \in DOMAIN s : s[i] \notin Space}, LAMBDA inner :
        IF inner = {} THEN <<>> ELSE SubSeq(s, min_of(inner), max_of(inner))))

\* str.split(sep) for a one-character separator: the pieces between the
\* separators, the n-th piece running from after the (n-1)-th separator
\* to before the n-th
split(str, sep) == bind(str, LAMBDA s :
    bind({i \in DOMAIN s : s[i] = sep}, LAMBDA seps :
        [n \in 1..(Cardinality(seps) + 1) |->
            SubSeq(s,
                   max_of({i \in seps : Cardinality({j \in seps : j <= i}) = n - 1}) + 1,
                   IF n = Cardinality(seps) + 1 THEN Len(s)
                   ELSE min_of({i \in seps : Cardinality({j \in seps : j <= i}) = n}) - 1)]))

\* str.split(): the maximal runs of non-whitespace characters, the n-th
\* run starting at the n-th position that begins one
split_ws(str) == bind(str, LAMBDA s :
    bind({i \in DOMAIN s : s[i] \notin Space /\ (i = 1 \/ s[i - 1] \in Space)},
         LAMBDA starts :
        [n \in 1..Cardinality(starts) |->
            bind(min_of({i \in starts : Cardinality({j \in starts : j <= i}) = n}),
                 LAMBDA from :
                SubSeq(s, from,
                       min_of({k \in from..Len(s) :
                                   k = Len(s) \/ s[k + 1] \in Space})))]))

\* sep.join(parts)
RECURSIVE join_from(_, _, _)
join_from(sep, parts, k) ==
    IF k > Len(parts) THEN <<>>
    ELSE IF k = Len(parts) THEN parts[k]
    ELSE parts[k] \o sep \o join_from(sep, parts, k + 1)

join(sep, seq) == bind(seq, LAMBDA parts : join_from(sep, parts, 1))

startswith(str, c) == bind(str, LAMBDA s : Len(s) >= 1 /\ s[1] = c)

endswith(str, c) == bind(str, LAMBDA s : Len(s) >= 1 /\ s[Len(s)] = c)

\* needle in hay
contains(hay0, needle0) == bind2(hay0, needle0, LAMBDA hay, needle :
    \E i \in 1..(Len(hay) + 1) :
        /\ i + Len(needle) - 1 <= Len(hay)
        /\ \A k \in 1..Len(needle) : hay[i + k - 1] = needle[k])

\* str.zfill(width)
zfill(str, width) == bind(str, LAMBDA s :
    [i \in 1..(IF Len(s) < width THEN width ELSE Len(s)) |->
        IF i <= width - Len(s) THEN "0"
        ELSE s[i - (IF Len(s) < width THEN width - Len(s) ELSE 0)]])

\* str.title(): the first letter of every run of letters in upper case,
\* the others in lower case
title_case(str) == bind(str, LAMBDA s :
    [i \in DOMAIN s |->
        IF s[i] \notin Letters THEN s[i]
        ELSE IF i = 1 \/ s[i - 1] \notin Letters THEN upper_char(s[i])
        ELSE lower_char(s[i])])

--------------------------------------------------------------------------
(* The regular-expression steps the patterns of the source are made of.   *)
(* A step takes the position of the next character to read and returns    *)
(* the position after what it consumed, or 0 when it does not match; a    *)
(* step given 0 returns 0.                                                *)

RECURSIVE skip_class(_, _, _)
skip_class(cls, s, i) ==
    IF i <= Len(s) /\ s[i] \in cls THEN skip_class(cls, s, i + 1) ELSE i

\* cls+  (greedy; no pattern of the source can match after giving back)
re_plus(cls, s, at) == bind(at, LAMBDA i :
    IF i = 0 \/ i > Len(s) THEN 0
    ELSE IF s[i] \notin cls THEN 0
    ELSE skip_class(cls, s, i + 1))

\* cls*  (as used between the letters of the "Contenido" heading)
re_star(cls, s, at) == bind(at, LAMBDA i :
    IF i = 0 THEN 0 ELSE skip_class(cls, s, i))

\* cls{n}
re_count(cls, n, s, at) == bind(at, LAMBDA i :
    IF i = 0 \/ i + n - 1 > Len(s) THEN 0
    ELSE IF \A k \in 0..(n - 1) : s[i + k] \in cls THEN i + n ELSE 0)

\* a literal, compared letter by letter, ignoring case under re.IGNORECASE
re_lit(lit, ignorecase, s, at) == bind(at, LAMBDA i :
    IF i = 0 \/ i + Len(lit) - 1 > Len(s) THEN 0
    ELSE IF \A k \in 1..Len(lit) :
                IF ignorecase
                THEN upper_char(s[i + k - 1]) = upper_char(lit[k])
                ELSE s[i + k - 1] = lit[k]
         THEN i + Len(lit)
         ELSE 0)

--------------------------------------------------------------------------
(* The words of the boundary patterns.                                    *)

W_DECRETO == <<"D","E","C","R","E","T","O">>

W_RESOLUCION == <<"R","E","S","O","L","U","C","I","O'","N">>

W_EJECUTIVA == <<"E","J","E","C","U","T","I","V","A">>

W_CIRCULAR == <<"C","I","R","C","U","L","A","R">>

W_EXTERNA == <<"E","X","T","E","R","N","A">>

W_CONJUNTA == <<"C","O","N","J","U","N","T","A">>

W_ACUERDO == <<"A","C","U","E","R","D","O">>

W_NUMERO_ACC == <<"N","U'","M","E","R","O">>

W_NUMERO == <<"N","U","M","E","R","O">>

W_DE == <<"D","E">>

W_OTRO == <<"O","T","R","O">>

\* The type keywords, each a list of words, in the order of the pattern
\* lists of extract_document_content and extract_documents.
T_DECRETO == <<W_DECRETO>>

T_RESOLUCION == <<W_RESOLUCION>>

T_EJECUTIVA == <<W_RESOLUCION, W_EJECUTIVA>>

T_CIRCULAR == <<W_CIRCULAR, W_EXTERNA, W_CONJUNTA>>

T_ACUERDO == <<W_ACUERDO>>

document_types == <<T_DECRETO, T_RESOLUCION, T_EJECUTIVA, T_CIRCULAR, T_ACUERDO>>

\* The order of the elif chain of identify_document_type.
identify_order == <<T_DECRETO, T_EJECUTIVA, T_RESOLUCION, T_CIRCULAR, T_ACUERDO>>

\* A type keyword at position i.  With flex the words are separated by \s+
\* (extract_document_content, identify_document_type); without it by one
\* blank, as the keyword is written in the patterns of extract_documents.
RECURSIVE re_words(_, _, _, _, _, _)
re_words(words, k, flex, ignorecase, s, at) == bind(at, LAMBDA i :
    bind(re_lit(words[k], ignorecase, s,
                IF k = 1 THEN i
                ELSE IF flex THEN re_plus(Space, s, i)
                ELSE re_lit(<<" ">>, FALSE, s, i)),
         LAMBDA e :
             IF k = Len(words) THEN e
             ELSE re_words(words, k + 1, flex, ignorecase, s, e)))

re_type(words, flex, ignorecase, s, i) == re_words(words, 1, flex, ignorecase, s, i)

\* NÚMERO, or N[ÚU]MERO when unaccented is allowed
re_numero(unaccented, ignorecase, s, at) == bind(at, LAMBDA i :
    bind(re_lit(W_NUMERO_ACC, ignorecase, s, i), LAMBDA a :
        IF a # 0 \/ ~unaccented THEN a ELSE re_lit(W_NUMERO, ignorecase, s, i)))

\* \s+NÚMERO\s+(\d+)\s+DE\s+(\d{4}) from position i: where the number
\* and the year begin and end
marker_tail(unaccented, ignorecase, s, i) ==
    bind(re_plus(Space, s,
             re_numero(unaccented, ignorecase, s, re_plus(Space, s, i))),
         LAMBDA num_from :
    bind(re_plus(Digits, s, num_from), LAMBDA num_to :
    bind(re_plus(Space, s, re_lit(W_DE, ignorecase, s, re_plus(Space, s, num_to))),
         LAMBDA year_from :
        [end |-> re_count(Digits, 4, s, year_from),
         num_from |-> num_from, num_to |-> num_to, year_from |-> year_from])))

\* <TYPE>\s+NÚMERO\s+\d+\s+DE\s+\d{4} at position i: the end, or 0
marker_at(words, flex, unaccented, ignorecase, s, i) ==
    marker_tail(unaccented, ignorecase, s,
                re_type(words, flex, ignorecase, s, i)).end

\* The combined pattern of extract_document_content matches at i.
content_pattern_at(s, i) ==
    \E k \in DOMAIN document_types :
        marker_at(document_types[k], TRUE, FALSE, FALSE, s, i) # 0

\* The combined pattern of extract_documents (re.IGNORECASE) matches at i.
combined_pattern_at(s, i) ==
    \E k \in DOMAIN document_types :
        marker_at(document_types[k], FALSE, TRUE, TRUE, s, i) # 0

\* re.search(...).start() over s[from..]: the first position at or after
\* `from` where the pattern matches, or 0 for None.
search_content(str, from) == bind(str, LAMBDA s :
    LET hit(i) == content_pattern_at(s, i) IN first_in(from..Len(s), hit))

search_combined(str, from) == bind(str, LAMBDA s :
    LET hit(i) == combined_pattern_at(s, i) IN first_in(from..Len(s), hit))

--------------------------------------------------------------------------
(* normalize_text, clean_entity_name, find_entity_fuzzy                    *)

W_MINISTERIO == <<"M","I","N","I","S","T","E","R","I","O">>

W_DEPARTAMENTO == <<"D","E","P","A","R","T","A","M","E","N","T","O">>

W_ENTIDAD == <<"E","N","T","I","D","A","D">>

W_ORGANISMO == <<"O","R","G","A","N","I","S","M","O">>

stopwords == {
    <<"C","O","M","U","N","I","C","A","R">>,
    <<"P","O","R">>,
    <<"D","E","C","R","E","T","O">>,
    <<"R","E","S","O","L","U","C","I","O'","N">>,
    <<"R","E","S","O","L","U","C","I","O","N">>,
    <<"A","C","U","E","R","D","O">>,
    <<"C","I","R","C","U","L","A","R">>,
    <<"C","O","N","T","E","N","I","D","O">>,
    <<"P","R","E","S","E","N","T","E">>,
    <<"D","O","C","T","O","R","E","S">>}

INSTITUCION_DESCONOCIDA == <<"I","N","S","T","I","T","U","C","I","O'","N"," ","D","E","S","C","O","N","O","C","I","D","A">>

\* unicodedata.normalize('NFKD', text).encode('ASCII', 'ignore')
\*     .decode('ASCII').upper() if text else ''
\* An accented letter decomposes into its ASCII letter and a combining mark
\* that the encoding drops; every other character of Alphabet is ASCII.
normalize_text(str) == bind(str, LAMBDA text :
    [i \in DOMAIN text |->
        upper_char(IF text[i] \in Accented THEN BaseMap[text[i]] ELSE text[i])])

\* The words of nombre_split before the first stopword.
until_stopword(seq) == bind(seq, LAMBDA words :
    LET stop(k) == upper(words[k]) \in stopwords
    IN  bind(first_in(DOMAIN words, stop), LAMBDA k :
            IF k = 0 THEN words ELSE SubSeq(words, 1, k - 1)))

\* re.match(r'((MINISTERIO|DEPARTAMENTO|ORGANISMO|ENTIDAD)[A-ZÁÉÍÓÚÑ\s]+)',
\*          s, re.IGNORECASE): the end of group 1, or 0.  Under IGNORECASE
\* the class holds the letters of both cases.
entity_keywords == <<W_MINISTERIO, W_DEPARTAMENTO, W_ORGANISMO, W_ENTIDAD>>

entity_name_match(s) ==
    LET end(k) == re_plus(Letters \cup Space, s,
                          re_lit(entity_keywords[k], TRUE, s, 1))
        ok(k) == end(k) # 0
    IN  bind(first_in(DOMAIN entity_keywords, ok), LAMBDA k :
            IF k = 0 THEN 0 ELSE end(k))

FirstWords == 8

\* The branch taken when the pattern matched: nombre up to the first
\* stopword, or all of it when that leaves nothing.
clean_matched(nombre0) == bind(nombre0, LAMBDA nombre :
    bind(until_stopword(split_ws(nombre)), LAMBDA nombre_final :
        IF Len(nombre_final) > 0
        THEN title_case(join(<<" ">>, nombre_final))
        ELSE title_case(nombre)))

\* The branch taken when it did not: the first 8 words.
clean_unmatched(seq) == bind(seq, LAMBDA words :
    title_case(join(<<" ">>,
        SubSeq(words, 1, IF Len(words) < FirstWords THEN Len(words)
                         ELSE FirstWords))))

clean_entity_name(entity) ==
    bind(entity, LAMBDA ent :
        IF Len(ent) = 0 THEN ent
        ELSE bind(strip(split(split(ent, "\n")[1], ".")[1]), LAMBDA cut :
                 bind(entity_name_match(cut), LAMBDA e :
                     IF e # 0 THEN clean_matched(strip(SubSeq(cut, 1, e - 1)))
                     ELSE clean_unmatched(split_ws(cut)))))

\* The three tests made in one loop: the first entry that passes any of
\* them is returned.
find_entity_single_pass(toc, lineas, tipo, numero, anio) ==
    LET weak(k) == contains(lineas[k], anio)
        named(k) == Len(toc[k].entidad) > 0
    IN  bind(first_in(DOMAIN toc, weak), LAMBDA k :
        IF k # 0 THEN clean_entity_name(toc[k].entidad)
        ELSE bind(last_in(DOMAIN toc, named), LAMBDA last_entity :
        IF last_entity # 0 THEN clean_entity_name(toc[last_entity].entidad)
        ELSE INSTITUCION_DESCONOCIDA))

\* find_entity_fuzzy with tipo, numero and anio normalised and lineas[k]
\* the normalised linea of entry k: the three loops in turn, then
\* last_entity (the entity of the last entry that has one), then the
\* default.
find_entity_normalized(toc, lineas, tipo, numero, anio) ==
    LET full(k) == /\ contains(lineas[k], tipo)
                   /\ contains(lineas[k], numero)
                   /\ contains(lineas[k], anio)
        partial(k) == /\ contains(lineas[k], numero)
                      /\ contains(lineas[k], anio)
        weak(k) == contains(lineas[k], anio)
        named(k) == Len(toc[k].entidad) > 0
    IN  bind(first_in(DOMAIN toc, full), LAMBDA k1 :
        IF k1 # 0 THEN clean_entity_name(toc[k1].entidad)
        ELSE bind(first_in(DOMAIN toc, partial), LAMBDA k2 :
        IF k2 # 0 THEN clean_entity_name(toc[k2].entidad)
        ELSE bind(first_in(DOMAIN toc, weak), LAMBDA k3 :
        IF k3 # 0 THEN clean_entity_name(toc[k3].entidad)
        ELSE bind(last_in(DOMAIN toc, named), LAMBDA last_entity :
        IF last_entity # 0 THEN clean_entity_name(toc[last_entity].entidad)
        ELSE INSTITUCION_DESCONOCIDA))))

find_entity_fuzzy(toc, tipo, numero, anio) ==
    bind(toc, LAMBDA entries :
        bind(normalize_text(tipo), LAMBDA t :
            bind2(normalize_text(numero), normalize_text(anio), LAMBDA n, a :
                bind([k \in DOMAIN entries |-> normalize_text(entries[k].linea)],
                     LAMBDA lineas :
                         find_entity_normalized(entries, lineas, t, n, a)))))

--------------------------------------------------------------------------
(* process_two_column_text                                                *)

\* One pass of the loop over lines: st is [processed_lines, current_line].
reflow_line(st0, raw) == bind2(st0, strip(raw), LAMBDA st, line :
    IF Len(line) = 0 THEN st
    ELSE IF endswith(line, "-")
    THEN [st EXCEPT !.current_line =
             Append(@, SubSeq(line, 1, Len(line) - 1))]
    ELSE [processed_lines |->
              Append(st.processed_lines,
                     join(<<" ">>, Append(st.current_line, line))),
          current_line |-> <<>>])

\* The code after the loop: the held fragments become the last line.
reflow_finish(st0) == bind(st0, LAMBDA st :
    join(<<"\n">>,
         IF Len(st.current_line) > 0
         THEN Append(st.processed_lines, join(<<" ">>, st.current_line))
         ELSE st.processed_lines))

RECURSIVE reflow_fold(_, _, _)
reflow_fold(st0, ls, i) == bind(st0, LAMBDA st :
    IF i > Len(ls) THEN st ELSE reflow_fold(reflow_line(st, ls[i]), ls, i + 1))

process_two_column_text(text) ==
    bind(split(text, "\n"), LAMBDA ls :
        reflow_finish(reflow_fold([processed_lines |-> <<>>, current_line |-> <<>>],
                                  ls, 1)))

--------------------------------------------------------------------------
(* extract_table_of_contents                                              *)

W_CONTENIDO == <<"C","o","n","t","e","n","i","d","o">>

W_PAGINA == <<"P","a","g","i","n","a">>

W_PAGINA_ACC == <<"P","a'","g","i","n","a">>

\* C\s*o\s*n\s*t\s*e\s*n\s*i\s*d\s*o from position i on, letter k first:
\* the position after the match, or 0.
RECURSIVE contenido_from(_, _, _)
contenido_from(line, i, k) ==
    bind(re_lit(<<W_CONTENIDO[k]>>, TRUE, line, i), LAMBDA e :
        IF k = Len(W_CONTENIDO) THEN e
        ELSE contenido_from(line, re_star(Space, line, e), k + 1))

\* re.search(r'C\s*o\s*n\s*t\s*e\s*n\s*i\s*d\s*o', line, re.IGNORECASE)
is_contenido(str) == bind(str, LAMBDA line :
    \E i \in 1..Len(line) : contenido_from(line, i, 1) # 0)

\* re.search(r'P[áa]gina|^\d+$', line, re.IGNORECASE); $ also matches
\* before a newline that ends the line
is_page_break(str) == bind(str, LAMBDA line :
    \/ \E i \in 1..Len(line) :
           \/ re_lit(W_PAGINA, TRUE, line, i) # 0
           \/ re_lit(W_PAGINA_ACC, TRUE, line, i) # 0
    \/ bind(re_plus(Digits, line, 1), LAMBDA e :
           e # 0 /\ (e = Len(line) + 1 \/ (e = Len(line) /\ line[e] = "\n"))))

\* entity_pattern.match(line):
\* ^(MINISTERIO|DEPARTAMENTO|ENTIDAD|ORGANISMO)[^\n]*, re.IGNORECASE
is_entity(str) == bind(str, LAMBDA line :
    \E w \in {W_MINISTERIO, W_DEPARTAMENTO, W_ENTIDAD, W_ORGANISMO} :
        re_lit(w, TRUE, line, 1) # 0)

\* page.extract_text() for page in reader.pages if page.extract_text()
nonempty_pages(seq) == bind(seq, LAMBDA ps :
    bind({i \in DOMAIN ps : Len(ps[i]) > 0}, LAMBDA kept :
        [n \in 1..Cardinality(kept) |->
            ps[CHOOSE i \in kept : Cardinality({j \in kept : j <= i}) = n]]))

\* full_text = '\n'.join(...); lines = full_text.split('\n')
raw_lines(ps) == split(join(<<"\n">>, nonempty_pages(ps)), "\n")

\* toc_start initialised to the first line instead of -1.
toc_start_of_default_first(ls) ==
    LET hit(i) == is_contenido(ls[i])
    IN  bind(first_in(DOMAIN ls, hit), LAMBDA at : IF at # 0 THEN at ELSE 1)

\* toc_start: the index of the first "Contenido" line, or 0 (the code's -1)
toc_start_of(ls) ==
    LET hit(i) == is_contenido(ls[i]) IN first_in(DOMAIN ls, hit)

\* toc_end: the index of the first page-break line after toc_start, or
\* len(lines) + 1
toc_end_of(ls, start) ==
    LET hit(i) == is_page_break(ls[i])
    IN  bind(first_in((start + 1)..Len(ls), hit), LAMBDA at :
            IF at # 0 THEN at ELSE Len(ls) + 1)

\* toc_lines = lines[toc_start:toc_end]
toc_lines_from(ls, start) == SubSeq(ls, start, toc_end_of(ls, start) - 1)

\* current_entity = None
NoEntity == <<>>

\* The pass without the test of current_entity before data.append.
toc_line_unguarded(st0, raw) == bind2(st0, strip(raw), LAMBDA st, line :
    IF Len(line) = 0 THEN st
    ELSE IF is_entity(line) THEN [st EXCEPT !.current_entity = strip(line)]
    ELSE [st EXCEPT !.data =
             Append(@, [entidad |-> st.current_entity, linea |-> line])])

\* One pass of the loop over toc_lines: st is [current_entity, data].
toc_line(st0, raw) == bind2(st0, strip(raw), LAMBDA st, line :
    IF Len(line) = 0 THEN st
    ELSE IF is_entity(line) THEN [st EXCEPT !.current_entity = strip(line)]
    ELSE IF Len(st.current_entity) > 0
    THEN [st EXCEPT !.data =
             Append(@, [entidad |-> st.current_entity, linea |-> line])]
    ELSE st)

RECURSIVE toc_fold(_, _, _)
toc_fold(st0, ls, i) == bind(st0, LAMBDA st :
    IF i > Len(ls) THEN st ELSE toc_fold(toc_line(st, ls[i]), ls, i + 1))

toc_of(seq) == bind(seq, LAMBDA ls :
    bind(toc_start_of(ls), LAMBDA toc_start :
        IF toc_start = 0 THEN <<>>
        ELSE bind(toc_lines_from(ls, toc_start), LAMBDA toc_lines :
                 toc_fold([current_entity |-> NoEntity, data |-> <<>>],
                          toc_lines, 1).data)))

extract_table_of_contents(ps) == toc_of(raw_lines(ps))

--------------------------------------------------------------------------
(* extract_publication_date                                               *)

HEADER_PREFIX == <<"B","o","g","o","t","a'",","," ","D","."," ","C",".",","," ">>

W_de == <<"d","e">>

month_names == <<
    <<"e","n","e","r","o">>,
    <<"f","e","b","r","e","r","o">>,
    <<"m","a","r","z","o">>,
    <<"a","b","r","i","l">>,
    <<"m","a","y","o">>,
    <<"j","u","n","i","o">>,
    <<"j","u","l","i","o">>,
    <<"a","g","o","s","t","o">>,
    <<"s","e","p","t","i","e","m","b","r","e">>,
    <<"o","c","t","u","b","r","e">>,
    <<"n","o","v","i","e","m","b","r","e">>,
    <<"d","i","c","i","e","m","b","r","e">>>>

\* month_map: the name at place k maps to k written with two digits
month_number(k) ==
    <<(IF k < 10 THEN "0" ELSE "1"),
      <<"0","1","2","3","4","5","6","7","8","9">>[(k % 10) + 1]>>

\* The lookup without month.lower().
month_map_get_case_sensitive(month) ==
    IF \E k \in DOMAIN month_names : month_names[k] = month
    THEN month_number(CHOOSE k \in DOMAIN month_names : month_names[k] = month)
    ELSE <<"0","1">>

\* month_map.get(month.lower(), '01')
month_map_get(month) ==
    LET name == lower(month)
    IN  IF \E k \in DOMAIN month_names : month_names[k] = name
        THEN month_number(CHOOSE k \in DOMAIN month_names : month_names[k] = name)
        ELSE <<"0","1">>

AsciiLetters == Letters \ Accented
\* \d{1,2}: two digits when the second character is a digit too
re_day(s, i) ==
    bind(re_count(Digits, 1, s, i), LAMBDA one :
        IF one = 0 THEN 0
        ELSE IF one <= Len(s) /\ s[one] \in Digits THEN one + 1 ELSE one)

\* The span of s from position a up to, not including, position b; empty
\* when the pattern failed before b.
group(s, a, b) == IF a = 0 \/ b = 0 THEN <<>> ELSE SubSeq(s, a, b - 1)

\* date_pattern at position i: where the match ends (0 for no match) and
\* its three groups
date_groups(s, day_from, day_to, month_from) ==
    bind(re_plus(AsciiLetters, s, month_from), LAMBDA month_to :
        bind(re_plus(Space, s, re_lit(W_de, FALSE, s, re_plus(Space, s, month_to))),
             LAMBDA year_from :
                 bind(re_count(Digits, 4, s, year_from), LAMBDA end :
                     [end   |-> end,
                      day   |-> group(s, day_from, day_to),
                      month |-> group(s, month_from, month_to),
                      year  |-> group(s, year_from, end)])))

date_pattern_at(s, i) ==
    bind(re_plus(Space, s,
             re_lit(<<",">>, FALSE, s,
                 re_plus(Alphabet \ {","}, s,
                     re_lit(HEADER_PREFIX, FALSE, s, i)))),
         LAMBDA day_from :
             bind(re_day(s, day_from), LAMBDA day_to :
                 date_groups(s, day_from, day_to,
                     re_plus(Space, s,
                         re_lit(W_de, FALSE, s, re_plus(Space, s, day_to))))))

\* f"{year}-{month_num}-{day.zfill(2)}"
format_date(m0) == bind(m0, LAMBDA m :
    m.year \o <<"-">> \o month_map_get(m.month) \o <<"-">> \o zfill(m.day, 2))

extract_publication_date(str) == bind(str, LAMBDA text :
    LET hit(i) == date_pattern_at(text, i).end # 0
    IN  bind(first_in(1..Len(text), hit), LAMBDA at :
            IF at # 0 THEN format_date(date_pattern_at(text, at)) ELSE <<>>))

--------------------------------------------------------------------------
(* extract_document_content, identify_document_type and the title fields  *)

\* Offsets are those of the code, counted from 0: the character at offset
\* k is text[k + 1].  next_doc is the position of the next boundary, or 0.
content_until(text, start_index, next_doc) ==
    bind(next_doc, LAMBDA at :
        IF at # 0
        THEN [content |-> strip(SubSeq(text, start_index + 1, at - 1)),
              next_index |-> at - 1]
        ELSE [content |-> strip(SubSeq(text, start_index + 1, Len(text))),
              next_index |-> Len(text)])

\* The search begun at the document's own marker: text[start_index:].
extract_document_content_from_start(text, start_index) ==
    content_until(text, start_index, search_content(text, start_index + 1))

\* re.search(combined_pattern, text[start_index + 1:])
extract_document_content(text, start_index) ==
    content_until(text, start_index, search_content(text, start_index + 2))

type_name(words) == join(<<" ">>, words)

\* re.search of one pattern of the elif chain over the upper-cased title
identify_matches(words, t) ==
    \E i \in 1..Len(t) : marker_at(words, TRUE, FALSE, FALSE, t, i) # 0

identify_document_type(title) == bind(upper(title), LAMBDA t :
    LET hit(k) == identify_matches(identify_order[k], t)
    IN  bind(first_in(DOMAIN identify_order, hit), LAMBDA k :
            IF k # 0 THEN type_name(identify_order[k]) ELSE W_OTRO))

\* tipo, numero and anio when doc_match is None
NoMatch == [matched |-> FALSE, tipo |-> <<>>, numero |-> <<>>, anio |-> <<>>]

\* The groups of a match whose type keyword ends before e and whose
\* remaining parts are at m.
doc_groups(title, e, m0) == bind(m0, LAMBDA m :
    [matched |-> TRUE,
     tipo    |-> upper(SubSeq(title, 1, e - 1)),
     numero  |-> SubSeq(title, m.num_from, m.num_to - 1),
     anio    |-> SubSeq(title, m.year_from, m.end - 1)])

\* doc_match = re.match(r'(DECRETO|RESOLUCIÓN|RESOLUCIÓN EJECUTIVA|CIRCULAR
\* EXTERNA CONJUNTA|ACUERDO)\s+N[ÚU]MERO\s+(\d+)\s+DE\s+(\d{4})', title,
\* re.IGNORECASE): the alternatives are tried in order at the title's start.
doc_match(str) == bind(str, LAMBDA title :
    LET ok(k) == marker_at(document_types[k], FALSE, TRUE, TRUE, title, 1) # 0
    IN  bind(first_in(DOMAIN document_types, ok), LAMBDA k :
            IF k = 0 THEN NoMatch
            ELSE bind(re_type(document_types[k], FALSE, TRUE, title, 1), LAMBDA e :
                     doc_groups(title, e, marker_tail(TRUE, TRUE, title, e)))))

\* The loop over lines[1:]: the last line in parentheses is the date, the
\* other lines are the description.
RECURSIVE body_fold(_, _, _)
body_fold(st0, ls, i) == bind(st0, LAMBDA st :
    IF i > Len(ls) THEN st
    ELSE bind(strip(ls[i]), LAMBDA line :
             body_fold(IF startswith(line, "(") /\ endswith(line, ")")
                       THEN [st EXCEPT !.date = line]
                       ELSE [st EXCEPT !.description_lines = Append(@, line)],
                       ls, i + 1)))

\* The record appended by one pass of the while loop, given the title
\* after the date line was added to it, and the locals of the pass.
document_of(title, description_lines, m, toc, pub_date, next_index) ==
    [record |->
        [tipo_documento    |-> identify_document_type(title),
         titulo            |-> title,
         descripcion       |-> strip(join(<<"\n">>, description_lines)),
         fecha_publicacion |-> pub_date,
         institucion       |-> find_entity_fuzzy(toc, m.tipo, m.numero, m.anio)],
     next_index |-> next_index,
     locals |-> m]

document_lines(ls, toc, pub_date, next_index) ==
    bind(strip(ls[1]), LAMBDA title0 :
        bind2(body_fold([date |-> <<>>, description_lines |-> <<>>], ls, 2),
              doc_match(title0), LAMBDA body, m :
                  bind(IF Len(body.date) > 0
                       THEN title0 \o <<"\n">> \o body.date ELSE title0,
                       LAMBDA title :
                           document_of(title, body.description_lines, m,
                                       toc, pub_date, next_index))))

\* The body of the while loop of extract_documents for the document that
\* starts at start_index: the record appended, next_index and the locals.
build_document(text, toc, pub_date, start_index) ==
    bind(extract_document_content(text, start_index), LAMBDA dc :
        bind(split(dc.content, "\n"), LAMBDA ls :
            document_lines(ls, toc, pub_date, dc.next_index)))

--------------------------------------------------------------------------
(* Inputs.  A page is a list of lines joined by newlines; the lines are    *)
(* drawn from a pool that holds the cases of each procedure.              *)

\* All sequences over S of length at most n.
SeqsUpTo(S, n) == UNION {[1..k -> S] : k \in 0..n}

page_of(ls) == join(<<"\n">>, ls)

Unused == <<>>

L_DECRETO_1 == <<"D","E","C","R","E","T","O"," ","N","U'","M","E","R","O"," ","1"," ","D","E"," ","2","0","2","0">>

L_decreto_2 == <<"d","e","c","r","e","t","o"," ","n","u","m","e","r","o"," ","2"," ","d","e"," ","2","0","2","1">>

L_EJECUTIVA_3 == <<"R","E","S","O","L","U","C","I","O'","N"," "," ","E","J","E","C","U","T","I","V","A"," ","N","U'","M","E","R","O"," ","3"," ","D","E"," ","2","0","2","0">>

L_EJECUTIVA_4 == <<"R","E","S","O","L","U","C","I","O'","N"," ","E","J","E","C","U","T","I","V","A"," ","N","U'","M","E","R","O"," ","4"," ","D","E"," ","2","0","2","1">>

L_Contenido == <<"C","o","n","t","e","n","i","d","o">>

L_MINISTERIO == <<"M","I","N","I","S","T","E","R","I","O"," ","D","E"," ","H","A","C","I","E","N","D","A">>

L_fecha == <<"(","e","n","e","r","o"," ","5",")">>

L_guion == <<"p","a","-">>

ScanLinePool == {L_DECRETO_1, L_decreto_2, L_EJECUTIVA_3, L_EJECUTIVA_4,
                 L_Contenido, L_MINISTERIO, L_fecha, L_guion}

MaxScanLines == 2

--------------------------------------------------------------------------
(* extract_documents                                                      *)

\* process_two_column_text applied to every page that has text
reflow_pages(seq) == bind(seq, LAMBDA ps :
    [n \in DOMAIN ps |-> process_two_column_text(ps[n])])

InitScan ==
    /\ pc = "read"
    /\ pages \in {<<page_of(ls)>> : ls \in SeqsUpTo(ScanLinePool, MaxScanLines)}
    /\ full_text = Unused
    /\ toc_data = Unused
    /\ publication_date = Unused
    /\ current_index = 0
    /\ documents = <<>>
    /\ spans = <<>>
    /\ fields = <<>>
    /\ lines = Unused
    /\ idx = 0
    /\ current_entity = Unused
    /\ data = Unused
    /\ processed_lines = Unused
    /\ current_line = Unused
    /\ args = Unused
    /\ result = Unused

\* Lines 402-424: reflow every page that has text, join the pages, extract
\* the publication date and the table of contents.
ReadIssue ==
    /\ pc = "read"
    /\ \E text \in {join(<<"\n">>, reflow_pages(nonempty_pages(pages)))} :
           /\ full_text' = text
           /\ publication_date' = extract_publication_date(text)
    /\ toc_data' = extract_table_of_contents(pages)
    /\ pc' = "scan"
    /\ UNCHANGED <<pages, current_index, documents, spans, fields, lines, idx,
                   current_entity, data, processed_lines, current_line, args,
                   result>>

\* One pass of the while loop that finds a match.
EmitDocument ==
    /\ pc = "scan"
    /\ \E match \in {search_combined(full_text, current_index + 1)} :
           /\ match # 0
           /\ \E doc \in {build_document(full_text, toc_data, publication_date,
                                         match - 1)} :
                  /\ documents' = Append(documents, doc.record)
                  /\ spans' = Append(spans, <<match - 1, doc.next_index>>)
                  /\ fields' = Append(fields, doc.locals)
                  /\ current_index' = doc.next_index
    /\ UNCHANGED <<pc, pages, full_text, toc_data, publication_date, lines, idx,
                   current_entity, data, processed_lines, current_line, args,
                   result>>

\* The pass that finds no match: break, return documents.
StopScan ==
    /\ pc = "scan"
    /\ search_combined(full_text, current_index + 1) = 0
    /\ pc' = "done"
    /\ result' = documents
    /\ UNCHANGED <<pages, full_text, toc_data, publication_date, current_index,
                   documents, spans, fields, lines, idx, current_entity, data,
                   processed_lines, current_line, args>>

NextScan == ReadIssue \/ EmitDocument \/ StopScan

SpecScan == InitScan /\ [][NextScan]_vars

\* The loop is sequential code: a step that can be taken is taken.
FairScan == SpecScan /\ WF_vars(NextScan)

--------------------------------------------------------------------------
(* Properties of extract_documents                                        *)

\* The positions of full_text where a boundary marker begins: any of the
\* five types, in any letter case, with NÚMERO or NUMERO.
markers == {i \in 1..Len(full_text) : combined_pattern_at(full_text, i)}

\* The title line of a record: titulo up to its first newline.
title_line(doc) == split(doc.titulo, "\n")[1]

\* C1: a text with N boundary markers yields exactly N records, one
\* starting at each marker, whose spans cover the text from the first
\* marker to its end; a text with no marker yields the empty list.
C1_OneRecordPerMarker ==
    pc = "done" =>
        /\ Len(documents) = Cardinality(markers)
        /\ {spans[k][1] + 1 : k \in DOMAIN spans} = markers
        /\ \A k \in 2..Len(spans) : spans[k][1] = spans[k - 1][2]
        /\ Len(spans) > 0 => spans[Len(spans)][2] = Len(full_text)

\* C2: the spans emitted so far are contiguous and non-overlapping, their
\* starts strictly increase, and when scanning stops the last span ends at
\* the end of the text.
C2_SpansContiguous ==
    /\ \A k \in 2..Len(spans) : spans[k][1] = spans[k - 1][2]
    /\ \A k \in 2..Len(spans) : spans[k][1] > spans[k - 1][1]
    /\ (pc = "done" /\ Len(spans) > 0) => spans[Len(spans)][2] = Len(full_text)

\* No line of the issue is a "Contenido" heading.
no_contenido == \A line \in Range(raw_lines(pages)) : ~is_contenido(line)

\* C4: when no line of the issue is a "Contenido" heading the table of
\* contents is empty and every record's institucion is the sentinel,
\* whatever the type, number and year of its document.
C4_NoTocGivesSentinel ==
    (pc \in {"scan", "done"} /\ no_contenido) =>
        /\ toc_data = <<>>
        /\ \A k \in DOMAIN documents :
               documents[k].institucion = INSTITUCION_DESCONOCIDA

\* C4 witness: an issue without "Contenido" that has an institution
\* heading and a document, fully scanned.
C4_Witness ==
    /\ pc = "done"
    /\ no_contenido
    /\ \E line \in Range(raw_lines(pages)) : is_entity(line)
    /\ Len(documents) > 0

\* C5: every record carries numero and anio, equal to the number and the
\* year of its title line.
C5_RecordsCarryNumeroAnio ==
    \A k \in DOMAIN documents :
        /\ {"numero", "anio"} \subseteq DOMAIN documents[k]
        /\ fields[k].matched =>
               /\ documents[k].numero = fields[k].numero
               /\ documents[k].anio = fields[k].anio

\* extract_document_content finds no boundary after the marker of the
\* document that starts at start_index.
no_boundary_after(start_index) ==
    \A i \in (start_index + 2)..Len(full_text) : ~content_pattern_at(full_text, i)

\* C8: every pass of the scan loop moves current_index strictly past the
\* start of the document it emitted and not past the end of the text; a
\* document after which no boundary is found extends to the end of the
\* text, the loop then stops, and the scan always terminates.
C8_ScanTerminates ==
    /\ [][(pc = "scan" /\ Len(spans') > Len(spans)) =>
              LET sp == spans'[Len(spans')]
              IN  /\ current_index' = sp[2]
                  /\ sp[2] > sp[1]
                  /\ sp[2] <= Len(full_text)
                  /\ no_boundary_after(sp[1]) => sp[2] = Len(full_text)]_vars
    /\ [][(pc = "scan" /\ current_index = Len(full_text)) => pc' = "done"]_vars
    /\ <>(pc = "done")

\* C8 witness: a scan that emitted two documents, the last one running to
\* the end of the text, and stopped.
C8_Witness ==
    /\ pc = "done"
    /\ Len(spans) = 2
    /\ no_boundary_after(spans[2][1])
    /\ spans[2][2] = Len(full_text)

\* C10: a record whose title line matches the anchored pattern has the
\* upper-cased type of that match as tipo_documento, and tipo_documento
\* is OTRO only when the title matches none of the five type patterns.
C10_TypeFollowsTitle ==
    \A k \in DOMAIN documents :
        /\ fields[k].matched => documents[k].tipo_documento = fields[k].tipo
        /\ documents[k].tipo_documento = W_OTRO =>
               \A i \in 1..Len(title_line(documents[k])) :
                   ~combined_pattern_at(title_line(documents[k]), i)

--------------------------------------------------------------------------
(* extract_table_of_contents, one line of its loop at a time              *)

L_C_o_n_t_e_n_i_d_o == <<"C"," ","o"," ","n"," ","t"," ","e"," ","n"," ","i"," ","d"," ","o">>

L_Departamento == <<"D","e","p","a","r","t","a","m","e","n","t","o"," ","B">>

L_linea == <<"x"," ","1">>

L_linea_sp == <<" ","y"," ">>

L_vacia == <<>>

L_pagina == <<"1","2">>

L_texto == <<"t","e","x","t","o">>

TocFirstLines == {L_Contenido, L_C_o_n_t_e_n_i_d_o, L_texto}

TocLinePool == {L_MINISTERIO, L_Departamento, L_linea, L_linea_sp, L_vacia,
                L_pagina}

MaxTocLines == 3

InitToc ==
    /\ pc = "toc_read"
    /\ pages \in {<<page_of(<<first>> \o ls)>> :
                     first \in TocFirstLines,
                     ls \in SeqsUpTo(TocLinePool, MaxTocLines)}
    /\ full_text = Unused
    /\ toc_data = Unused
    /\ publication_date = Unused
    /\ current_index = 0
    /\ documents = <<>>
    /\ spans = <<>>
    /\ fields = <<>>
    /\ lines = Unused
    /\ idx = 0
    /\ current_entity = NoEntity
    /\ data = <<>>
    /\ processed_lines = Unused
    /\ current_line = Unused
    /\ args = Unused
    /\ result = Unused

\* Lines 146-157 when no line is a "Contenido" heading: return [].
TocAbsent ==
    /\ pc = "toc_read"
    /\ toc_start_of(raw_lines(pages)) = 0
    /\ pc' = "done"
    /\ result' = <<>>
    /\ UNCHANGED <<pages, full_text, toc_data, publication_date, current_index,
                   documents, spans, fields, lines, idx, current_entity, data,
                   processed_lines, current_line, args>>

\* Lines 146-169 otherwise: toc_lines is cut out and the loop begins.
TocLocate ==
    /\ pc = "toc_read"
    /\ \E ls \in {raw_lines(pages)} :
           \E toc_start \in {toc_start_of(ls)} :
               /\ toc_start # 0
               /\ lines' = toc_lines_from(ls, toc_start)
    /\ idx' = 1
    /\ current_entity' = NoEntity
    /\ data' = <<>>
    /\ pc' = "toc_loop"
    /\ UNCHANGED <<pages, full_text, toc_data, publication_date, current_index,
                   documents, spans, fields, processed_lines, current_line,
                   args, result>>

\* Lines 170-183: one pass of the loop over toc_lines.
TocLine ==
    /\ pc = "toc_loop"
    /\ idx <= Len(lines)
    /\ \E st \in {toc_line([current_entity |-> current_entity, data |-> data],
                           lines[idx])} :
           /\ current_entity' = st.current_entity
           /\ data' = st.data
    /\ idx' = idx + 1
    /\ UNCHANGED <<pc, pages, full_text, toc_data, publication_date,
                   current_index, documents, spans, fields, lines,
                   processed_lines, current_line, args, result>>

\* Line 184: return data.
TocReturn ==
    /\ pc = "toc_loop"
    /\ idx > Len(lines)
    /\ pc' = "done"
    /\ result' = data
    /\ UNCHANGED <<pages, full_text, toc_data, publication_date, current_index,
                   documents, spans, fields, lines, idx, current_entity, data,
                   processed_lines, current_line, args>>

NextToc == TocAbsent \/ TocLocate \/ TocLine \/ TocReturn

SpecToc == InitToc /\ [][NextToc]_vars

--------------------------------------------------------------------------
(* Properties of extract_table_of_contents                                *)

\* The lines of toc_lines read so far that are institution headings.
headings_read ==
    {i \in 1..(idx - 1) : is_entity(strip(lines[i]))}

\* The lines read so far that are neither empty nor headings.
entries_read ==
    {i \in 1..(idx - 1) :
        Len(strip(lines[i])) > 0 /\ ~is_entity(strip(lines[i]))}

\* Those read after at least one heading.
entries_under_heading ==
    {i \in entries_read : \E h \in headings_read : h < i}

\* The n-th line, in line order, of a set of line numbers.
nth_of(S, n) == CHOOSE i \in S : Cardinality({j \in S : j <= i}) = n

\* The heading in effect when line i was read, or NoEntity before the
\* first heading.
heading_before(i) ==
    IF \E h \in headings_read : h < i
    THEN strip(lines[max_of({h \in headings_read : h < i})])
    ELSE NoEntity

\* data holds one entry for each line of S, in line order, each tied to
\* the heading in effect when its line was read.
recorded_exactly(S) ==
    /\ Len(data) = Cardinality(S)
    /\ \A n \in DOMAIN data :
           /\ data[n].linea = strip(lines[nth_of(S, n)])
           /\ data[n].entidad = heading_before(nth_of(S, n))

\* C9 as stated: every non-empty line of the region that is not a heading
\* has exactly one entry, in line order, tied to the most recent heading;
\* headings have none.
C9_EveryLineRecorded ==
    pc = "toc_loop" => recorded_exactly(entries_read)

\* C9 as amended: the lines recorded are the non-empty, non-heading lines
\* read after the first heading, one entry each, in line order, tied to
\* the most recent heading; a heading only replaces the current entity,
\* and a line read before any heading (the "Contenido" line among them)
\* leaves no entry.
C9_LinesUnderHeadingRecorded ==
    (pc = "toc_loop" \/ (pc = "done" /\ idx > 0)) =>
        /\ recorded_exactly(entries_under_heading)
        /\ current_entity = heading_before(idx)
        /\ pc = "done" => result = data

\* C9 witness: the loop has ended with a line skipped before the first
\* heading, and an entry recorded under a heading.
C9_Witness ==
    /\ pc = "done"
    /\ idx > 0
    /\ entries_under_heading # {}
    /\ entries_read \ entries_under_heading # {}
    /\ Len(result) = Cardinality(entries_under_heading)

--------------------------------------------------------------------------
(* process_two_column_text, one line of its loop at a time                *)

L_bra == <<"b","r","a">>

L_x_sp == <<" ","x"," ">>

L_solo_guion == <<"-">>

ReflowLinePool == {L_guion, L_bra, L_x_sp, L_solo_guion, L_vacia}

MaxReflowLines == 3

InitReflow ==
    /\ pc = "reflow_read"
    /\ args \in {page_of(ls) : ls \in SeqsUpTo(ReflowLinePool, MaxReflowLines)}
    /\ pages = Unused
    /\ full_text = Unused
    /\ toc_data = Unused
    /\ publication_date = Unused
    /\ current_index = 0
    /\ documents = <<>>
    /\ spans = <<>>
    /\ fields = <<>>
    /\ lines = Unused
    /\ idx = 0
    /\ current_entity = Unused
    /\ data = Unused
    /\ processed_lines = <<>>
    /\ current_line = <<>>
    /\ result = Unused

\* Lines 263-265: split the text into lines, start with nothing held.
ReflowSplit ==
    /\ pc = "reflow_read"
    /\ lines' = split(args, "\n")
    /\ idx' = 1
    /\ processed_lines' = <<>>
    /\ current_line' = <<>>
    /\ pc' = "reflow_loop"
    /\ UNCHANGED <<pages, full_text, toc_data, publication_date, current_index,
                   documents, spans, fields, current_entity, data, args,
                   result>>

\* Lines 267-279: one pass of the loop over lines.
ReflowLine ==
    /\ pc = "reflow_loop"
    /\ idx <= Len(lines)
    /\ \E st \in {reflow_line([processed_lines |-> processed_lines,
                               current_line |-> current_line], lines[idx])} :
           /\ processed_lines' = st.processed_lines
           /\ current_line' = st.current_line
    /\ idx' = idx + 1
    /\ UNCHANGED <<pc, pages, full_text, toc_data, publication_date,
                   current_index, documents, spans, fields, lines,
                   current_entity, data, args, result>>

\* Lines 281-285: the held fragments become the last line; return.
ReflowReturn ==
    /\ pc = "reflow_loop"
    /\ idx > Len(lines)
    /\ result' = reflow_finish([processed_lines |-> processed_lines,
                                current_line |-> current_line])
    /\ pc' = "done"
    /\ UNCHANGED <<pages, full_text, toc_data, publication_date, current_index,
                   documents, spans, fields, lines, idx, current_entity, data,
                   processed_lines, current_line, args>>

NextReflow == ReflowSplit \/ ReflowLine \/ ReflowReturn

SpecReflow == InitReflow /\ [][NextReflow]_vars

--------------------------------------------------------------------------
(* Properties of process_two_column_text                                  *)

\* The input lines that are not empty once stripped.
nonempty_lines == {i \in DOMAIN lines : Len(strip(lines[i])) > 0}

\* Line i stripped, without the hyphen that ends it (if one does).
fragment(i) ==
    IF endswith(strip(lines[i]), "-")
    THEN SubSeq(strip(lines[i]), 1, Len(strip(lines[i])) - 1)
    ELSE strip(lines[i])

\* The non-empty line that follows line i, or 0.
next_nonempty(i) == min_of({j \in nonempty_lines : j > i})

\* C6: a non-empty line that ends with a hyphen and the non-empty line
\* after it come out as one token, the fragment before the hyphen and the
\* start of the next line adjacent with no separator between them; the
\* lines that end no word half-way come out in their input order, one
\* output line each.
C6_HyphenJoinsTokens ==
    pc = "done" =>
        /\ \A i \in nonempty_lines :
               (endswith(strip(lines[i]), "-") /\ next_nonempty(i) # 0) =>
                   contains(result, fragment(i) \o fragment(next_nonempty(i)))
        /\ LET whole == {i \in nonempty_lines : ~endswith(strip(lines[i]), "-")}
               out == split(result, "\n")
           IN  \A n \in 1..Cardinality(whole) :
                   /\ n <= Len(out)
                   /\ LET line == strip(lines[nth_of(whole, n)])
                      IN  /\ Len(out[n]) >= Len(line)
                          /\ SubSeq(out[n], Len(out[n]) - Len(line) + 1,
                                    Len(out[n])) = line

--------------------------------------------------------------------------
(* find_entity_fuzzy applied to a table of contents and a title's fields  *)

E_anio ==
    [entidad |-> <<"M","I","N","I","S","T","E","R","I","O"," ","A">>,
     linea |-> <<"x"," ","2","0","2","0">>]

E_decreto ==
    [entidad |-> <<"D","e","p","a","r","t","a","m","e","n","t","o"," ","B">>,
     linea |-> <<"D","e","c","r","e","t","o"," ","n","u'","m","e","r","o"," ","1","2"," ","d","e"," ","2","0","2","0">>]

E_resolucion ==
    [entidad |-> <<"E","N","T","I","D","A","D"," ","C"," ","P","O","R">>,
     linea |-> <<"r","e","s","o","l","u","c","i","o'","n"," ","1","2"," ","d","e"," ","2","0","2","0">>]

E_nada ==
    [entidad |-> <<"O","R","G","A","N","I","S","M","O"," ","D">>,
     linea |-> <<"y">>]

E_decreto_bis ==
    [entidad |-> <<"M","i","n","i","s","t","e","r","i","o"," ","E">>,
     linea |-> <<"D","E","C","R","E","T","O"," ","N","U","M","E","R","O"," ","1","2"," ","D","E"," ","2","0","2","0"," ","b","i","s">>]

TocEntryPool == {E_anio, E_decreto, E_resolucion, E_nada, E_decreto_bis}

\* tipo, numero and anio as extract_documents passes them
TitleFieldPool == {
    [tipo |-> W_DECRETO, numero |-> <<"1","2">>, anio |-> <<"2","0","2","0">>],
    [tipo |-> W_RESOLUCION, numero |-> <<"1","2">>, anio |-> <<"2","0","2","0">>],
    [tipo |-> W_ACUERDO, numero |-> <<"7">>, anio |-> <<"2","0","2","1">>],
    [tipo |-> <<>>, numero |-> <<>>, anio |-> <<>>]}

MaxTocEntries == 3

InitFuzzy ==
    /\ pc = "call"
    /\ args \in {[toc_data |-> toc, tipo |-> f.tipo, numero |-> f.numero,
                  anio |-> f.anio] :
                     toc \in SeqsUpTo(TocEntryPool, MaxTocEntries),
                     f \in TitleFieldPool}
    /\ pages = Unused
    /\ full_text = Unused
    /\ toc_data = Unused
    /\ publication_date = Unused
    /\ current_index = 0
    /\ documents = <<>>
    /\ spans = <<>>
    /\ fields = <<>>
    /\ lines = Unused
    /\ idx = 0
    /\ current_entity = Unused
    /\ data = Unused
    /\ processed_lines = Unused
    /\ current_line = Unused
    /\ result = Unused

\* Lines 219-250.
FindEntity ==
    /\ pc = "call"
    /\ result' = find_entity_fuzzy(args.toc_data, args.tipo, args.numero,
                                   args.anio)
    /\ pc' = "done"
    /\ UNCHANGED <<pages, full_text, toc_data, publication_date, current_index,
                   documents, spans, fields, lines, idx, current_entity, data,
                   processed_lines, current_line, args>>

NextFuzzy == FindEntity

SpecFuzzy == InitFuzzy /\ [][NextFuzzy]_vars

--------------------------------------------------------------------------
(* Properties of find_entity_fuzzy                                        *)

\* Whether the normalised line of entry k contains the normalised field.
line_has(k, field) ==
    contains(normalize_text(args.toc_data[k].linea), normalize_text(field))

\* The tier of entry k: 1 when its line contains tipo, numero and anio, 2
\* when it contains numero and anio, 3 when it contains anio, 4 otherwise.
tier(k) ==
    IF line_has(k, args.anio)
    THEN IF line_has(k, args.numero)
         THEN IF line_has(k, args.tipo) THEN 1 ELSE 2
         ELSE 3
    ELSE 4

\* The entries of the best tier present among tiers 1 to 3.
best_matches ==
    {k \in DOMAIN args.toc_data :
        /\ tier(k) < 4
        /\ \A j \in DOMAIN args.toc_data : tier(k) <= tier(j)}

\* C3: when some entry matches at tiers 1 to 3, the result is the cleaned
\* institution of the first entry of the best tier present, wherever the
\* entries of weaker tiers stand in the list.
C3_BestTierWins ==
    (pc = "done" /\ best_matches # {}) =>
        result = clean_entity_name(args.toc_data[min_of(best_matches)].entidad)

\* C3 witness: an entry of tier 3 stands before the first entry of tier 1,
\* their institutions differ, and the result is that of the tier-1 entry.
C3_Witness ==
    /\ pc = "done"
    /\ \E k \in best_matches :
           /\ tier(k) = 1
           /\ k = min_of(best_matches)
           /\ \E j \in 1..(k - 1) :
                  /\ tier(j) = 3
                  /\ clean_entity_name(args.toc_data[j].entidad) # result
           /\ result = clean_entity_name(args.toc_data[k].entidad)

--------------------------------------------------------------------------
(* extract_publication_date applied to an issue text                      *)

\* What may stand before the day: the header idiom, a text that lacks its
\* second comma, and a text that is no header at all.
HeaderStarts == {
    <<"B","o","g","o","t","a'",","," ","D","."," ","C",".",","," ","j","u","e","v","e","s",","," ">>,
    <<"x","\n","B","o","g","o","t","a'",","," ","D","."," ","C",".",","," ","j","u","e","v","e","s"," ">>,
    <<"B","o","g","o","t","a",","," ","D","."," ","C",".",","," ","j","u","e","v","e","s",","," ">>}

HeaderDays == {<<"5">>, <<"1","5">>}

\* The twelve names, three of them in other letter cases, and two words
\* that are no month names.
HeaderMonths == Range(month_names) \cup {
    <<"M","a","y","o">>,
    <<"D","I","C","I","E","M","B","R","E">>,
    <<"o","C","T","U","B","R","E">>,
    <<"f","o","o">>,
    <<"E","n","e">>}

HeaderYears == {<<"2","0","2","0">>, <<"1","9","9","9">>}

header_text(h) ==
    h.start \o h.day \o <<" ","d","e"," ">> \o h.month \o <<" ","d","e"," ">>
        \o h.year

InitDate ==
    /\ pc = "call"
    /\ args \in [start : HeaderStarts, day : HeaderDays, month : HeaderMonths,
                 year : HeaderYears]
    /\ pages = Unused
    /\ full_text = Unused
    /\ toc_data = Unused
    /\ publication_date = Unused
    /\ current_index = 0
    /\ documents = <<>>
    /\ spans = <<>>
    /\ fields = <<>>
    /\ lines = Unused
    /\ idx = 0
    /\ current_entity = Unused
    /\ data = Unused
    /\ processed_lines = Unused
    /\ current_line = Unused
    /\ result = Unused

\* Lines 342-372.
ExtractDate ==
    /\ pc = "call"
    /\ result' = extract_publication_date(header_text(args))
    /\ pc' = "done"
    /\ UNCHANGED <<pages, full_text, toc_data, publication_date, current_index,
                   documents, spans, fields, lines, idx, current_entity, data,
                   processed_lines, current_line, args>>

NextDate == ExtractDate

SpecDate == InitDate /\ [][NextDate]_vars

--------------------------------------------------------------------------
(* Properties of extract_publication_date                                 *)

\* The text has the header idiom: it begins with the prefix and its
\* weekday text is closed by a comma.
has_header ==
    /\ Len(args.start) > Len(HEADER_PREFIX)
    /\ SubSeq(args.start, 1, Len(HEADER_PREFIX)) = HEADER_PREFIX
    /\ endswith(strip(args.start), ",")

\* The place of the month word among the twelve names, letter case
\* ignored, or 0.
month_place ==
    LET named(k) == upper(month_names[k]) = upper(args.month)
    IN  first_in(DOMAIN month_names, named)

digit_chars == <<"0","1","2","3","4","5","6","7","8","9">>

\* n written with two digits
two_digits(n) == <<digit_chars[(n \div 10) + 1], digit_chars[(n % 10) + 1]>>

\* The day written with two digits
padded_day == IF Len(args.day) = 1 THEN <<"0">> \o args.day ELSE args.day

\* C7 as stated: YYYY-MM-DD for a header whose month word is one of the
\* twelve names in any letter case; the empty string when there is no
\* header and when the month word is none of the twelve names.
C7_UnknownMonthGivesEmpty ==
    pc = "done" =>
        IF has_header /\ month_place # 0
        THEN result = args.year \o <<"-">> \o two_digits(month_place)
                          \o <<"-">> \o padded_day
        ELSE result = <<>>

\* C7 as amended: YYYY-MM-DD for every header, the month being the number
\* of the month word among the twelve names in any letter case, and 01
\* for a word that is none of them; the empty string only when the text
\* has no header.
C7_UnknownMonthGivesJanuary ==
    pc = "done" =>
        IF has_header
        THEN result = args.year \o <<"-">>
                          \o (IF month_place # 0 THEN two_digits(month_place)
                              ELSE <<"0","1">>)
                          \o <<"-">> \o padded_day
        ELSE result = <<>>

\* C7 witness: a header whose month word is no month name was read, and
\* the result is a date in January.
C7_Witness ==
    /\ pc = "done"
    /\ has_header
    /\ month_place = 0
    /\ result = args.year \o <<"-","0","1","-">> \o padded_day

====
